---------------------------- MODULE Spec2Model ----------------------------
(***************************************************************************)
(* A model of ldif.py (LDIFParser / LDIFRecordList): the line unfolder,    *)
(* the attribute tokenizer, the DN grammar and the record loop of          *)
(* parse(), under the Python 2 semantics the module is written for.        *)
(*                                                                         *)
(* A string is a sequence of characters.  An ASCII character is the        *)
(* one-character string; the byte b >= 128 of a byte string is the token   *)
(* "\xb" (b in decimal) and the code point n >= 128 of a unicode string    *)
(* is the token "U+n".                                                     *)
(***************************************************************************)
EXTENDS Integers, Sequences, FiniteSets, TLC

VARIABLES
    parser,     \* [p]: the fields of instance p and the locals of its parse()
    file,       \* [p]: the whole content of the stream of p (never changes)
    scenario    \* how the streams were written (never changes)

vars == <<parser, file, scenario>>

----------------------------------------------------------------------------
(* Characters and strings                                                  *)

Str(s) == [i \in 1..Len(s) |-> SubSeq(s, i, i)]

\* The characters 32..95 and 97..126 (a string of the module cannot hold the
\* grave accent, 96, which is a token as the control characters are).
PrintableLow == " !\"#$%&'()*+,-./0123456789:;<=>?@ABCDEFGHIJKLMNOPQRSTUVWXYZ[\\]^_"

PrintableHigh == "abcdefghijklmnopqrstuvwxyz{|}~"

\* The byte with code b.
Chr(b) ==
    IF b >= 32 /\ b <= 95 THEN SubSeq(PrintableLow, b - 31, b - 31)
    ELSE IF b >= 97 /\ b <= 126 THEN SubSeq(PrintableHigh, b - 96, b - 96)
    ELSE IF b = 9 THEN "\t"
    ELSE IF b = 10 THEN "\n"
    ELSE IF b = 12 THEN "\f"
    ELSE IF b = 13 THEN "\r"
    ELSE "\\x" \o ToString(b)

\* The unicode character with code point n.
UniChr(n) == IF n < 128 THEN Chr(n) ELSE "U+" \o ToString(n)

ByteTable == [b \in 0..255 |-> Chr(b)]

ByteChars == {ByteTable[b] : b \in 0..255}

AsciiChars == {ByteTable[b] : b \in 0..127}

IsByte(c) == c \in ByteChars

OrdTable == [c \in ByteChars |-> CHOOSE b \in 0..255 : ByteTable[b] = c]

Ord(c) == OrdTable[c]

IsAscii(c) == c \in AsciiChars

\* Python's s[a:b] and s[a:] for 0 <= a.
Slice(s, a, b) == SubSeq(s, a + 1, IF b < Len(s) THEN b ELSE Len(s))

SliceFrom(s, a) == SubSeq(s, a + 1, Len(s))

\* s[-n:] for n > 0.
LastChars(s, n) == SubSeq(s, IF Len(s) > n THEN Len(s) - n + 1 ELSE 1, Len(s))

\* s[:-n] for n > 0.
DropLast(s, n) == SubSeq(s, 1, Len(s) - n)

None == [isNone |-> TRUE, s |-> <<>>]

Some(s) == [isNone |-> FALSE, s |-> s]

UpperLetters == Str("ABCDEFGHIJKLMNOPQRSTUVWXYZ")

LowerLetters == Str("abcdefghijklmnopqrstuvwxyz")

Digits == Str("0123456789")

Range(f) == {f[i] : i \in DOMAIN f}

\* The code points unicode.lower() changes, ASCII and Latin-1: each becomes
\* the code point 32 above it.
UpperCodes == (65..90) \cup ((192..222) \ {215})

LowerTable ==
    [c \in {UniChr(n) : n \in UpperCodes} |->
        UniChr((CHOOSE n \in UpperCodes : UniChr(n) = c) + 32)]

LowerChar(c) == IF c \in DOMAIN LowerTable THEN LowerTable[c] ELSE c

Lower(s) == [i \in 1..Len(s) |-> LowerChar(s[i])]

\* The characters unicode.lstrip() removes.
Whitespace ==
    {Chr(b) : b \in (9..13) \cup (28..32)}
        \cup {UniChr(n) : n \in {133, 160, 5760, 8232, 8233, 8239, 8287, 12288}
                                    \cup (8192..8202)}

RECURSIVE LStrip(_)
LStrip(s) ==
    IF s # <<>> /\ Head(s) \in Whitespace THEN LStrip(Tail(s)) ELSE s

----------------------------------------------------------------------------
(* str.decode('utf-8'), strict                                             *)

IsCont(c) == IsByte(c) /\ Ord(c) >= 128 /\ Ord(c) <= 191

\* The decoding of the first character of the byte string s: how many bytes
\* it takes and its code point, n = 0 when the bytes are no UTF-8.
Utf8First(s) ==
    LET b == Ord(s[1])
        c(i) == Ord(s[i]) - 128
        has(k) == Len(s) >= k /\ \A i \in 2..k : IsCont(s[i])
    IN  IF b < 128 THEN [n |-> 1, cp |-> b]
        ELSE IF b >= 194 /\ b <= 223 /\ has(2)
        THEN [n |-> 2, cp |-> (b - 192) * 64 + c(2)]
        ELSE IF b >= 224 /\ b <= 239 /\ has(3)
                /\ (b - 224) * 4096 + c(2) * 64 + c(3) >= 2048
        THEN [n |-> 3, cp |-> (b - 224) * 4096 + c(2) * 64 + c(3)]
        ELSE IF b >= 240 /\ b <= 244 /\ has(4)
                /\ (b - 240) * 262144 + c(2) * 4096 + c(3) * 64 + c(4) >= 65536
                /\ (b - 240) * 262144 + c(2) * 4096 + c(3) * 64 + c(4) <= 1114111
        THEN [n |-> 4, cp |-> (b - 240) * 262144 + c(2) * 4096 + c(3) * 64 + c(4)]
        ELSE [n |-> 0, cp |-> 0]

\* The decoding of a string whose first character is c and whose rest
\* decodes as r.
Utf8More(c, r) == [ok |-> r.ok, s |-> IF r.ok THEN <<c>> \o r.s ELSE <<>>]

RECURSIVE Utf8Decode(_)

\* The decoding of s, whose first character decodes as f.
Utf8Rest(f, s) ==
    IF f.n = 0 THEN [ok |-> FALSE, s |-> <<>>]
    ELSE Utf8More(UniChr(f.cp), Utf8Decode(SliceFrom(s, f.n)))

Utf8Decode(s) ==
    IF s = <<>> THEN [ok |-> TRUE, s |-> <<>>]
    ELSE Utf8Rest(Utf8First(s), s)

----------------------------------------------------------------------------
(* base64.decodestring (binascii.a2b_base64)                               *)

Base64Chars ==
    Str("ABCDEFGHIJKLMNOPQRSTUVWXYZabcdefghijklmnopqrstuvwxyz0123456789+/")

IsBase64Char(c) == \E i \in 1..64 : Base64Chars[i] = c

Base64Value(c) == (CHOOSE i \in 1..64 : Base64Chars[i] = c) - 1

Pow2(n) == IF n = 0 THEN 1 ELSE IF n = 2 THEN 4 ELSE IF n = 4 THEN 16
           ELSE IF n = 6 THEN 64 ELSE 256

\* binascii_find_valid(s, slen, 1) at a pad: the next character of the table
\* after the pad itself.
NextValidIsPad(s) ==
    LET after == {i \in 2..Len(s) : IsBase64Char(s[i]) \/ s[i] = "="}
    IN  after # {} /\ s[CHOOSE i \in after : \A j \in after : i <= j] = "="

RECURSIVE A2bBase64(_, _, _, _, _)
A2bBase64(s, quad_pos, leftchar, leftbits, out) ==
    IF s = <<>> THEN [ok |-> leftbits = 0, s |-> out]
    ELSE IF s[1] = "="
    THEN IF quad_pos < 2 \/ (quad_pos = 2 /\ ~NextValidIsPad(s))
         THEN A2bBase64(Tail(s), quad_pos, leftchar, leftbits, out)
         ELSE [ok |-> TRUE, s |-> out]
    ELSE IF ~IsBase64Char(s[1])
    THEN A2bBase64(Tail(s), quad_pos, leftchar, leftbits, out)
    ELSE LET lc == leftchar * 64 + Base64Value(s[1])
             lb == leftbits + 6
         IN  IF lb >= 8
             THEN A2bBase64(Tail(s), (quad_pos + 1) % 4, lc % Pow2(lb - 8),
                            lb - 8, Append(out, Chr((lc \div Pow2(lb - 8)) % 256)))
             ELSE A2bBase64(Tail(s), (quad_pos + 1) % 4, lc, lb, out)

\* What decodestring returns, or the error it raises.
Decoded(r) ==
    [ok |-> r.ok, error |-> IF r.ok THEN "" ELSE "binascii.Error",
     s |-> IF r.ok THEN r.s ELSE <<>>]

\* decodestring of a unicode string: it is first encoded as ASCII.
DecodeString(s) ==
    IF \E i \in 1..Len(s) : ~IsAscii(s[i])
    THEN [ok |-> FALSE, error |-> "UnicodeEncodeError", s |-> <<>>]
    ELSE Decoded(A2bBase64(s, 0, 0, 0, <<>>))

----------------------------------------------------------------------------
(* The DN grammar.  An operator XEnds(s, i) is the set of the positions j  *)
(* such that s[i..j-1] matches X.                                          *)

WordChars == Range(UpperLetters) \cup Range(LowerLetters) \cup Range(Digits) \cup {"_"}

\* [\w;.]
TypeChars == WordChars \cup {";", "."}

\* [\w_-]
OptionChars == WordChars \cup {"_", "-"}

\* C+ from i.
RunEnds(s, i, C) == {j \in (i + 1)..(Len(s) + 1) : \A k \in i..(j - 1) : s[k] \in C}

\* [ ]* from i.
SpacesEnds(s, i) == {i} \cup RunEnds(s, i, {" "})

At(s, i, c) == i <= Len(s) /\ s[i] = c

\* (;[\w_-]+)* from the positions P.
RECURSIVE OptionsEnds(_, _)
OptionsEnds(s, P) ==
    LET Q == P \cup UNION {IF At(s, j, ";") THEN RunEnds(s, j + 1, OptionChars)
                           ELSE {} : j \in P}
    IN  IF Q = P THEN P ELSE OptionsEnds(s, Q)

\* attrtype_pattern = [\w;.]+(;[\w_-]+)*
AttrTypeEnds(s, i) == OptionsEnds(s, RunEnds(s, i, TypeChars))

\* ([^,]|\\,)* from the positions P.
RECURSIVE ValueCharsEnds(_, _)
ValueCharsEnds(s, P) ==
    LET Q == P \cup {j + 1 : j \in {k \in P : k <= Len(s) /\ s[k] # ","}}
               \cup {j + 2 : j \in {k \in P : At(s, k, "\\") /\ At(s, k + 1, ",")}}
    IN  IF Q = P THEN P ELSE ValueCharsEnds(s, Q)

\* ".*?" from i.
QuotedEnds(s, i) ==
    IF At(s, i, "\"")
    THEN {j + 1 : j \in {k \in (i + 1)..Len(s) :
                            s[k] = "\"" /\ \A m \in (i + 1)..(k - 1) : s[m] # "\n"}}
    ELSE {}

\* attrvalue_pattern = (([^,]|\\,)+|".*?")
AttrValueEnds(s, i) == (ValueCharsEnds(s, {i}) \ {i}) \cup QuotedEnds(s, i)

\* rdn_pattern = attrtype [ ]*=[ ]* attrvalue
RdnEnds(s, i) ==
    UNION {UNION {UNION {AttrValueEnds(s, v) : v \in SpacesEnds(s, e + 1)}
                  : e \in {x \in SpacesEnds(s, t) : At(s, x, "=")}}
           : t \in AttrTypeEnds(s, i)}

\* ([ ]*,[ ]*rdn)* from the positions P.
RECURSIVE MoreRdnsEnds(_, _)
MoreRdnsEnds(s, P) ==
    LET Q == P \cup UNION {UNION {UNION {RdnEnds(s, r) : r \in SpacesEnds(s, c + 1)}
                                  : c \in {x \in SpacesEnds(s, j) : At(s, x, ",")}}
                           : j \in P}
    IN  IF Q = P THEN P ELSE MoreRdnsEnds(s, Q)

\* dn_regex matched without the test that the match is the whole of s.
DnRegexMatches_Prefix(s) == MoreRdnsEnds(s, RdnEnds(s, 1)) # {}

\* dn_regex = ^ rdn ([ ]*,[ ]*rdn)* [ ]* $, and the match is the whole of s.
DnRegexMatches(s) ==
    \E j \in MoreRdnsEnds(s, RdnEnds(s, 1)) : (Len(s) + 1) \in SpacesEnds(s, j)

is_dn(s) == IF s = <<>> THEN TRUE ELSE DnRegexMatches(s)

CHANGE_TYPES == {Str("add"), Str("delete"), Str("modify"), Str("modrdn")}

valid_changetype_dict == CHANGE_TYPES

----------------------------------------------------------------------------
(* The line unfolder and the attribute tokenizer                           *)

\* input_file.readline() on the remaining lines f.
ReadLine(f) ==
    IF f = <<>> THEN [line |-> <<>>, rest |-> <<>>]
    ELSE [line |-> Head(f), rest |-> Tail(f)]

_stripLineSep(s) ==
    IF LastChars(s, 2) = Str("\r\n") THEN DropLast(s, 2)
    ELSE IF LastChars(s, 1) = Str("\n") THEN DropLast(s, 1)
    ELSE s

\* The while loop of _unfoldLDIFLine.
RECURSIVE FoldLines(_, _, _)
FoldLines(unfolded_lines, l, f) ==
    IF l # <<>> /\ l[1] = " "
    THEN FoldLines(Append(unfolded_lines, _stripLineSep(Tail(l))),
                   ReadLine(f).line, ReadLine(f).rest)
    ELSE [unfolded_lines |-> unfolded_lines, line |-> l, rest |-> f]

RECURSIVE Concat(_)
Concat(parts) == IF parts = <<>> THEN <<>> ELSE Head(parts) \o Concat(Tail(parts))

\* ''.join(unfolded_lines): the first item is unicode, so every other item,
\* a byte string, is decoded as ASCII.
Join(parts) ==
    IF \A i \in 2..Len(parts) : \A k \in 1..Len(parts[i]) : IsAscii(parts[i][k])
    THEN [ok |-> TRUE, s |-> Concat(parts)]
    ELSE [ok |-> FALSE, s |-> <<>>]

\* What _unfoldLDIFLine returns and leaves in self._line and the stream,
\* once the lines r are read and joined as j.
Unfolded(j, r) ==
    [error |-> IF j.ok THEN "" ELSE "UnicodeDecodeError",
     text |-> j.s, line |-> r.line, rest |-> r.rest]

\* _unfoldLDIFLine once the folded lines r are read.
UnfoldRead(r) == Unfolded(Join(r.unfolded_lines), r)

\* _unfoldLDIFLine once self._line is decoded as d.
UnfoldDecoded(d, l, f) ==
    IF ~d.ok
    THEN [error |-> "UnicodeDecodeError", text |-> <<>>, line |-> l, rest |-> f]
    ELSE UnfoldRead(FoldLines(<<_stripLineSep(d.s)>>, ReadLine(f).line, ReadLine(f).rest))

\* _unfoldLDIFLine with self._line = l and the stream at f.
_unfoldLDIFLine(l, f) == UnfoldDecoded(Utf8Decode(l), l, f)

\* The comment loop of _parseAttrTypeandValue.
RECURSIVE SkipComments(_)
SkipComments(u) ==
    IF u.error = "" /\ u.text # <<>> /\ u.text[1] = "#"
    THEN SkipComments(_unfoldLDIFLine(u.line, u.rest))
    ELSE u

\* unfolded_line.index(':'), -1 for ValueError.
Index(s, c) ==
    IF \E i \in 1..Len(s) : s[i] = c
    THEN (CHOOSE i \in 1..Len(s) : s[i] = c /\ \A j \in 1..(i - 1) : s[j] # c) - 1
    ELSE -1

\* The value of a line whose value_spec is none of '::' and ':<'.
PlainValue(unfolded_line, colon_pos) ==
    IF Slice(unfolded_line, colon_pos, colon_pos + 2) = Str(":\r\n")
       \/ Slice(unfolded_line, colon_pos, colon_pos + 2) = Str("\n")
    THEN <<>>
    ELSE LStrip(SliceFrom(unfolded_line, colon_pos + 2))

\* The token of a '::' line whose payload decodes as d.
Base64Token(t, d) ==
    IF d.ok
    THEN [error |-> "", attr_type |-> Some(t), attr_value |-> Some(d.s)]
    ELSE [error |-> d.error, attr_type |-> None, attr_value |-> None]

\* The token of a line whose first colon is at colon_pos.
TokenAt(unfolded_line, colon_pos) ==
    IF colon_pos = -1
    THEN [error |-> "", attr_type |-> None, attr_value |-> None]
    ELSE IF Slice(unfolded_line, colon_pos, colon_pos + 2) = Str("::")
    THEN Base64Token(Slice(unfolded_line, 0, colon_pos),
                     DecodeString(SliceFrom(unfolded_line, colon_pos + 2)))
    ELSE IF Slice(unfolded_line, colon_pos, colon_pos + 2) = Str(":<")
    THEN [error |-> "", attr_type |-> Some(Slice(unfolded_line, 0, colon_pos)),
          attr_value |-> None]
    ELSE [error |-> "", attr_type |-> Some(Slice(unfolded_line, 0, colon_pos)),
          attr_value |-> Some(PlainValue(unfolded_line, colon_pos))]

\* What the tokenizer makes of a logical line.
TokenOf(unfolded_line) ==
    IF unfolded_line = <<>> \/ unfolded_line = Str("\n") \/ unfolded_line = Str("\r\n")
    THEN [error |-> "", attr_type |-> None, attr_value |-> None]
    ELSE TokenAt(unfolded_line, Index(unfolded_line, ":"))

\* What _parseAttrTypeandValue returns and leaves in self._line and the
\* stream, the unfolding u made and its token t.
Tokenized(t, u) ==
    [error |-> t.error, attr_type |-> t.attr_type, attr_value |-> t.attr_value,
     line |-> u.line, rest |-> u.rest]

\* _parseAttrTypeandValue once the comments are skipped.
ParseUnfolded(u) ==
    IF u.error # ""
    THEN [error |-> u.error, attr_type |-> None, attr_value |-> None,
          line |-> u.line, rest |-> u.rest]
    ELSE Tokenized(TokenOf(u.text), u)

\* _parseAttrTypeandValue with self._line = l and the stream at f.
_parseAttrTypeandValue(l, f) == ParseUnfolded(SkipComments(_unfoldLDIFLine(l, f)))

----------------------------------------------------------------------------
(* One parser instance.  Its state s holds the fields input_file (the      *)
(* lines readline() has not returned yet), line (self._line),              *)
(* max_entries, ignored (the keys of self._ignored_attr_types),            *)
(* records_read and all_records, the locals dn, changetype, entry,         *)
(* attr_type and attr_value of parse(), and pc (where parse() is), err     *)
(* (the exception that left parse(), "" when none), calls (how many times  *)
(* parse() was called) and tokens (how many times the tokenizer was).      *)

\* LDIFRecordList(input_file, ignored_attr_types, max_entries)
LDIFRecordList(f, ignored_attr_types, m) ==
    [input_file |-> f, line |-> <<>>, max_entries |-> m,
     ignored |-> {Lower(a) : a \in ignored_attr_types},
     records_read |-> 0, all_records |-> <<>>,
     dn |-> None, changetype |-> None, entry |-> <<>>,
     attr_type |-> None, attr_value |-> None,
     pc |-> "ready", err |-> "", calls |-> 0, tokens |-> 0]

\* An exception leaves parse().
Raise(s, e) == [s EXCEPT !.pc = "raised", !.err = e]

\* The tokenizer returned (or raised) t.
TakeToken(s, t) ==
    IF t.error # ""
    THEN [s EXCEPT !.line = t.line, !.input_file = t.rest, !.tokens = @ + 1,
                   !.pc = "raised", !.err = t.error]
    ELSE [s EXCEPT !.line = t.line, !.input_file = t.rest, !.tokens = @ + 1,
                   !.attr_type = t.attr_type, !.attr_value = t.attr_value,
                   !.pc = "inner"]

\* attr_type, attr_value = self._parseAttrTypeandValue()
ReadToken(s) == TakeToken(s, _parseAttrTypeandValue(s.line, s.input_file))

\* parse() is called and starts its count again.
Begin_Reset(s) ==
    [s EXCEPT !.calls = @ + 1, !.pc = "outer", !.records_read = 0,
              !.line = ReadLine(s.input_file).line,
              !.input_file = ReadLine(s.input_file).rest]

\* parse() is called: the first line is read.
Begin(s) ==
    [s EXCEPT !.calls = @ + 1, !.pc = "outer",
              !.line = ReadLine(s.input_file).line,
              !.input_file = ReadLine(s.input_file).rest]

\* The record loop with the cap tested one record late.
LoopCondition_OneMore(s) ==
    s.line # <<>> /\ (s.max_entries = 0 \/ s.records_read <= s.max_entries)

\* The condition of the record loop.
LoopCondition(s) ==
    s.line # <<>> /\ (s.max_entries = 0 \/ s.records_read < s.max_entries)

\* A pass of the record loop starts: the record is reset and its first
\* token read.
StartRecord(s) ==
    ReadToken([s EXCEPT !.dn = None, !.changetype = None, !.entry = <<>>])

\* The record loop ends and parse() returns.
Return(s) == [s EXCEPT !.pc = "returned"]

\* The attribute loop going on while type and value are not empty.
InRecord_Truthy(s) ==
    /\ ~s.attr_type.isNone /\ s.attr_type.s # <<>>
    /\ ~s.attr_value.isNone /\ s.attr_value.s # <<>>

\* The condition of the attribute loop.
InRecord(s) == ~s.attr_type.isNone /\ ~s.attr_value.isNone

\* The test of a second dn left out.
DuplicateDn_Never(s) == FALSE

\* A dn was already read in this record.
DuplicateDn(s) == ~s.dn.isNone

\* The token is a dn.
TakeDn(s) ==
    IF DuplicateDn(s)
    THEN Raise(s, "ValueError: Two lines starting with dn: in one record.")
    ELSE IF ~is_dn(s.attr_value.s)
    THEN Raise(s, "ValueError: No valid string-representation of distinguished name")
    ELSE ReadToken([s EXCEPT !.dn = s.attr_value])

\* The changetype taken without the test of the dn.
TakeChangetype_NoDnTest(s) ==
    IF ~s.changetype.isNone
    THEN Raise(s, "ValueError: Two lines starting with changetype: in one record.")
    ELSE IF s.attr_value.s \notin valid_changetype_dict
    THEN Raise(s, "ValueError: changetype value is invalid.")
    ELSE ReadToken([s EXCEPT !.changetype = s.attr_value])

\* The token is a changetype.
TakeChangetype(s) ==
    IF s.dn.isNone
    THEN Raise(s, "ValueError: Read changetype: before getting valid dn: line.")
    ELSE IF ~s.changetype.isNone
    THEN Raise(s, "ValueError: Two lines starting with changetype: in one record.")
    ELSE IF s.attr_value.s \notin valid_changetype_dict
    THEN Raise(s, "ValueError: changetype value is invalid.")
    ELSE ReadToken([s EXCEPT !.changetype = s.attr_value])

\* entry[k] replaced by the new value.
AddValue_Overwrite(e, k, v) ==
    IF k \in DOMAIN e THEN [e EXCEPT ![k] = <<v>>] ELSE e @@ (k :> <<v>>)

\* entry with v appended to entry[k], the list created when k is new.
AddValue(e, k, v) ==
    IF k \in DOMAIN e THEN [e EXCEPT ![k] = Append(@, v)] ELSE e @@ (k :> <<v>>)

\* The ignored types looked up in the case of the input line.
Kept_CaseSensitive(s, t) == t \notin s.ignored

\* Whether the attribute loop stores a token of type t.
Kept(s, t) == Lower(t) \notin s.ignored

\* The token is any other attribute.
TakeAttribute(s) ==
    ReadToken([s EXCEPT !.entry = IF Kept(s, s.attr_type.s)
                                  THEN AddValue(@, s.attr_type.s, s.attr_value.s)
                                  ELSE @])

\* Every record that ends is passed to handle.
Dispatched_Always(e) == TRUE

\* Whether the record that ended is passed to handle.
Dispatched(e) == e # <<>>

\* The record put in front of the list.
handle_InFront(s, d, e) == [s EXCEPT !.all_records = <<[dn |-> d, entry |-> e]>> \o @]

\* LDIFRecordList.handle
handle(s, d, e) == [s EXCEPT !.all_records = Append(@, [dn |-> d, entry |-> e])]

\* The end of the attribute loop that never leaves the loop.
EndRecord_Stuck(s) == s

\* The attribute loop ends: the record is handled when it has an entry.
EndRecord(s) ==
    IF Dispatched(s.entry)
    THEN [handle(s, s.dn, s.entry) EXCEPT !.records_read = @ + 1, !.pc = "outer"]
    ELSE [s EXCEPT !.pc = "outer"]

IsDnToken(s) == s.pc = "inner" /\ InRecord(s) /\ s.attr_type.s = Str("dn")

IsChangetypeToken(s) == s.pc = "inner" /\ InRecord(s) /\ s.attr_type.s = Str("changetype")

\* The attribute branch taken for every token, dn and changetype included.
IsAttributeToken_Any(s) == s.pc = "inner" /\ InRecord(s)

IsAttributeToken(s) ==
    /\ s.pc = "inner"
    /\ InRecord(s)
    /\ s.attr_type.s # Str("dn")
    /\ s.attr_type.s # Str("changetype")

\* The next step of parse().
Step(s) ==
    IF s.pc = "outer" THEN IF LoopCondition(s) THEN StartRecord(s) ELSE Return(s)
    ELSE IF IsDnToken(s) THEN TakeDn(s)
    ELSE IF IsChangetypeToken(s) THEN TakeChangetype(s)
    ELSE IF IsAttributeToken(s) THEN TakeAttribute(s)
    ELSE EndRecord(s)

Left(s) == s.pc \in {"returned", "raised"}

RECURSIVE Run(_)
Run(s) == IF Left(s) THEN s ELSE Run(Step(s))

\* The instance s after one call of parse().
parse(s) == Run(Begin(s))

----------------------------------------------------------------------------
(* The instances as they run                                               *)

\* How many times parse() is called on one instance.
MaxCalls == 2

Parsers == DOMAIN parser

ParseBegin(p) ==
    /\ parser[p].pc \in {"ready", "returned"}
    /\ parser[p].calls < MaxCalls
    /\ parser' = [parser EXCEPT ![p] = Begin(@)]
    /\ UNCHANGED <<file, scenario>>

RecordBegin(p) ==
    /\ parser[p].pc = "outer"
    /\ LoopCondition(parser[p])
    /\ parser' = [parser EXCEPT ![p] = StartRecord(@)]
    /\ UNCHANGED <<file, scenario>>

ParseReturn(p) ==
    /\ parser[p].pc = "outer"
    /\ ~LoopCondition(parser[p])
    /\ parser' = [parser EXCEPT ![p] = Return(@)]
    /\ UNCHANGED <<file, scenario>>

DnLine(p) ==
    /\ IsDnToken(parser[p])
    /\ parser' = [parser EXCEPT ![p] = TakeDn(@)]
    /\ UNCHANGED <<file, scenario>>

ChangetypeLine(p) ==
    /\ IsChangetypeToken(parser[p])
    /\ parser' = [parser EXCEPT ![p] = TakeChangetype(@)]
    /\ UNCHANGED <<file, scenario>>

AttrLine(p) ==
    /\ IsAttributeToken(parser[p])
    /\ parser' = [parser EXCEPT ![p] = TakeAttribute(@)]
    /\ UNCHANGED <<file, scenario>>

\* The end of a record with all_records one list shared by the instances.
RecordEnd_SharedList(p) ==
    /\ parser[p].pc = "inner"
    /\ ~InRecord(parser[p])
    /\ parser' = [q \in Parsers |->
                    IF q = p THEN EndRecord(parser[p])
                    ELSE IF Dispatched(parser[p].entry)
                    THEN handle(parser[q], parser[p].dn, parser[p].entry)
                    ELSE parser[q]]
    /\ UNCHANGED <<file, scenario>>

RecordEnd(p) ==
    /\ parser[p].pc = "inner"
    /\ ~InRecord(parser[p])
    /\ parser' = [parser EXCEPT ![p] = EndRecord(@)]
    /\ UNCHANGED <<file, scenario>>

Next ==
    \/ \E p \in Parsers : ParseBegin(p)
    \/ \E p \in Parsers : RecordBegin(p)
    \/ \E p \in Parsers : ParseReturn(p)
    \/ \E p \in Parsers : DnLine(p)
    \/ \E p \in Parsers : ChangetypeLine(p)
    \/ \E p \in Parsers : AttrLine(p)
    \/ \E p \in Parsers : RecordEnd(p)

----------------------------------------------------------------------------
(* Streams of physical lines                                               *)

LF == Str("\n")

CRLF == Str("\r\n")

\* Every sequence of at most n elements of S.
SeqsUpTo(S, n) == UNION {[1..k -> S] : k \in 0..n}

\* One instance over the stream f.
One(f, ignored_attr_types, m, how) ==
    /\ parser = <<LDIFRecordList(f, ignored_attr_types, m)>>
    /\ file = <<f>>
    /\ scenario = how

\* The physical lines of the streams of Spec.
Vocabulary ==
    { Str("dn: o=a\n"), Str("dn: o=a,,\n"), Str("cn: x\n"), Str("CN: y\r\n"),
      Str("changetype: add\n"), Str("changetype: Add\n"), Str("\n"), Str("zz\n"),
      Str("cn:< u\n"), Str("sn:: eA==\n") }

\* How many lines a stream of Spec has at most.
MaxLines == 3

\* The configurations of Spec.
Configs ==
    { [max_entries |-> 0, ignored_attr_types |-> {}],
      [max_entries |-> 0, ignored_attr_types |-> {Str("CN")}],
      [max_entries |-> 1, ignored_attr_types |-> {}],
      [max_entries |-> 1, ignored_attr_types |-> {Str("Cn")}] }

Init ==
    \E f \in SeqsUpTo(Vocabulary, MaxLines), c \in Configs :
        One(f, c.ignored_attr_types, c.max_entries,
            [kind |-> "any", ignored_attr_types |-> c.ignored_attr_types])

Spec == Init /\ [][Next]_vars

----------------------------------------------------------------------------
(* Streams written from records                                            *)

\* A record as written: its dn line, its changetype line if any, its
\* attribute lines, and a second dn line after them if any.
Attr(t, v) == [type |-> Str(t), value |-> Str(v)]

Catalog ==
    { [dn |-> Str("o=a"), changetype |-> None, again |-> None,
       attrs |-> <<Attr("cn", "x")>>],
      [dn |-> Str("o=b"), changetype |-> None, again |-> None,
       attrs |-> <<Attr("cn", "x"), Attr("cn", "y"), Attr("cn", "x")>>],
      [dn |-> Str("cn=c,o=a"), changetype |-> Some(Str("add")), again |-> None,
       attrs |-> <<Attr("sn", "z"), Attr("cn", "y"), Attr("sn", "x")>>],
      [dn |-> Str("o=d"), changetype |-> None, again |-> None,
       attrs |-> <<Attr("Mail", "m"), Attr("cn", "x")>>],
      [dn |-> <<>>, changetype |-> None, again |-> None,
       attrs |-> <<Attr("cn", "y")>>],
      [dn |-> Str("o=e"), changetype |-> None, again |-> Some(Str("o=f")),
       attrs |-> <<Attr("cn", "x")>>] }

\* How many records a stream of SpecRecords has at most.
MaxRecords == 3

RecordConfigs ==
    { [max_entries |-> 0, ignored_attr_types |-> {}, sep |-> LF, trailing |-> FALSE],
      [max_entries |-> 0, ignored_attr_types |-> {Str("MAIL")}, sep |-> CRLF, trailing |-> TRUE],
      [max_entries |-> 1, ignored_attr_types |-> {}, sep |-> CRLF, trailing |-> FALSE],
      [max_entries |-> 1, ignored_attr_types |-> {Str("mail")}, sep |-> LF, trailing |-> TRUE],
      [max_entries |-> 2, ignored_attr_types |-> {}, sep |-> LF, trailing |-> TRUE],
      [max_entries |-> 2, ignored_attr_types |-> {Str("MAIL")}, sep |-> LF, trailing |-> FALSE] }

AttrLines(attrs, sep) ==
    [i \in 1..Len(attrs) |-> attrs[i].type \o Str(": ") \o attrs[i].value \o sep]

RecordLines(r, sep) ==
    <<Str("dn: ") \o r.dn \o sep>>
        \o (IF r.changetype.isNone THEN <<>>
            ELSE <<Str("changetype: ") \o r.changetype.s \o sep>>)
        \o AttrLines(r.attrs, sep)
        \o (IF r.again.isNone THEN <<>> ELSE <<Str("dn: ") \o r.again.s \o sep>>)

\* The records, one blank line between two of them.
RECURSIVE RecordsLines(_, _)
RecordsLines(recs, sep) ==
    IF recs = <<>> THEN <<>>
    ELSE IF Len(recs) = 1 THEN RecordLines(recs[1], sep)
    ELSE RecordLines(recs[1], sep) \o <<sep>> \o RecordsLines(Tail(recs), sep)

Written(recs, c) ==
    RecordsLines(recs, c.sep) \o (IF c.trailing THEN <<c.sep>> ELSE <<>>)

InitRecords ==
    \E recs \in SeqsUpTo(Catalog, MaxRecords), c \in RecordConfigs :
        One(Written(recs, c), c.ignored_attr_types, c.max_entries,
            [kind |-> "records", recs |-> recs,
             ignored_attr_types |-> c.ignored_attr_types])

SpecRecords == InitRecords /\ [][Next]_vars

\* The values of the attribute lines of type k, in the order of the lines.
RECURSIVE ValuesOf(_, _)
ValuesOf(attrs, k) ==
    IF attrs = <<>> THEN <<>>
    ELSE (IF attrs[1].type = k THEN <<attrs[1].value>> ELSE <<>>)
            \o ValuesOf(Tail(attrs), k)

IsIgnored(t) == \E a \in scenario.ignored_attr_types : Lower(a) = Lower(t)

\* The record handle is to receive for the written record r.
RecordOf(r) ==
    [dn |-> Some(r.dn),
     entry |-> [k \in {r.attrs[i].type : i \in {j \in 1..Len(r.attrs) :
                                                   ~IsIgnored(r.attrs[j].type)}}
                    |-> ValuesOf(r.attrs, k)]]

RecordsOf(recs) == [i \in 1..Len(recs) |-> RecordOf(recs[i])]

\* One valid dn line, then at least one attribute line that is not ignored.
WellFormed(recs) ==
    \A i \in 1..Len(recs) :
        /\ recs[i].again.isNone
        /\ is_dn(recs[i].dn)
        /\ \E j \in 1..Len(recs[i].attrs) : ~IsIgnored(recs[i].attrs[j].type)

IsPrefix(a, b) == Len(a) <= Len(b) /\ a = SubSeq(b, 1, Len(a))

----------------------------------------------------------------------------
(* The claims                                                              *)

\* C1: of N well-formed records separated by blank lines and with
\* max_entries = 0, handle receives exactly the N records, the k-th call the
\* dn and the attributes of the k-th record, and records_read = N when
\* parse() returns; parse() does not raise.
C1_EveryRecordInOrder ==
    \A p \in Parsers :
        (WellFormed(scenario.recs) /\ parser[p].max_entries = 0) =>
            /\ parser[p].pc # "raised"
            /\ IsPrefix(parser[p].all_records, RecordsOf(scenario.recs))
            /\ parser[p].pc = "returned" =>
                  /\ parser[p].all_records = RecordsOf(scenario.recs)
                  /\ parser[p].records_read = Len(scenario.recs)

C1_Witness ==
    /\ WellFormed(scenario.recs)
    /\ Len(scenario.recs) >= 3
    /\ scenario.recs[1] # scenario.recs[2]
    /\ parser[1].max_entries = 0
    /\ parser[1].pc = "returned"
    /\ parser[1].records_read = Len(scenario.recs)

\* C2: with max_entries = M > 0 and more than M well-formed records, handle
\* receives exactly the first M records, each complete, records_read = M
\* when parse() returns, and records_read never exceeds M.
C2_MaxEntries ==
    \A p \in Parsers :
        parser[p].max_entries > 0 =>
            /\ parser[p].records_read <= parser[p].max_entries
            /\ (WellFormed(scenario.recs) /\ Len(scenario.recs) > parser[p].max_entries) =>
                  /\ parser[p].pc # "raised"
                  /\ parser[p].pc = "returned" =>
                        /\ parser[p].all_records =
                              SubSeq(RecordsOf(scenario.recs), 1, parser[p].max_entries)
                        /\ parser[p].records_read = parser[p].max_entries

C2_Witness ==
    /\ WellFormed(scenario.recs)
    /\ parser[1].max_entries = 2
    /\ Len(scenario.recs) > 2
    /\ Len(scenario.recs[2].attrs) = 3
    /\ parser[1].pc = "returned"
    /\ parser[1].records_read = 2
    /\ parser[1].input_file # <<>>

\* Whether the record of instance p has just ended (the attribute loop is
\* left, the test of the entry is next).
AtRecordEnd(p) == parser[p].pc = "inner" /\ ~InRecord(parser[p])

\* C3: handle is called only at the end of a record whose entry is not
\* empty; a record whose entry is empty is neither passed to handle nor
\* counted; records_read is the number of calls of handle and never
\* decreases.
C3_OnlyNonEmptyRecords ==
    /\ [](\A p \in Parsers :
            /\ parser[p].records_read = Len(parser[p].all_records)
            /\ \A i \in 1..Len(parser[p].all_records) :
                  parser[p].all_records[i].entry # <<>>)
    /\ [][\A p \in Parsers :
            /\ parser'[p].records_read >= parser[p].records_read
            /\ parser'[p].all_records # parser[p].all_records =>
                  /\ AtRecordEnd(p)
                  /\ parser[p].entry # <<>>
                  /\ parser'[p].all_records =
                        Append(parser[p].all_records,
                               [dn |-> parser[p].dn, entry |-> parser[p].entry])
            /\ (AtRecordEnd(p) /\ parser[p].entry = <<>>) =>
                  /\ parser'[p].all_records = parser[p].all_records
                  /\ parser'[p].records_read = parser[p].records_read]_vars

\* A record of a dn line alone has ended after a record that was handled.
C3_Witness ==
    /\ parser[1].pc = "outer"
    /\ parser[1].entry = <<>>
    /\ ~parser[1].dn.isNone
    /\ parser[1].records_read = 1
    /\ parser[1].tokens >= 3

\* The first record written with a second dn line, 0 when there is none.
FirstAgain(recs) ==
    IF \E i \in 1..Len(recs) : ~recs[i].again.isNone
    THEN CHOOSE i \in 1..Len(recs) :
            ~recs[i].again.isNone /\ \A j \in 1..(i - 1) : recs[j].again.isNone
    ELSE 0

\* The lines of the stream the instance has not consumed.
LinesLeft(s) == Len(s.input_file) + (IF s.line = <<>> THEN 0 ELSE 1)

\* The k-th record is the first with a second dn line and the cap does not
\* stop instance p before it.
ReadsSecondDn(p, k) ==
    /\ k > 0
    /\ WellFormed(SubSeq(scenario.recs, 1, k - 1))
    /\ parser[p].max_entries = 0 \/ k - 1 < parser[p].max_entries

\* C4: when a second dn line is read within one record, parse() raises at
\* that line, handle is not called for that record, and records_read is the
\* number of the records handled before it.
C4_SecondDnRaises ==
    \A p \in Parsers :
        ReadsSecondDn(p, FirstAgain(scenario.recs)) =>
            /\ parser[p].pc # "returned"
            /\ parser[p].pc = "raised" =>
                  /\ parser[p].err = "ValueError: Two lines starting with dn: in one record."
                  /\ parser[p].all_records =
                        RecordsOf(SubSeq(scenario.recs, 1, FirstAgain(scenario.recs) - 1))
                  /\ parser[p].records_read = FirstAgain(scenario.recs) - 1
                  /\ LinesLeft(parser[p]) =
                        Len(file[p]) - Len(RecordsLines(
                            SubSeq(scenario.recs, 1, FirstAgain(scenario.recs)), LF))

\* The second dn line of the third record raised, after two records were
\* handled.
C4_Witness ==
    /\ FirstAgain(scenario.recs) = 3
    /\ ReadsSecondDn(1, 3)
    /\ parser[1].pc = "raised"
    /\ parser[1].records_read = 2

\* C6: no key of an entry passed to handle is, in lowercase, the lowercase
\* of a configured ignored type.
C6_IgnoredNeverStored ==
    \A p \in Parsers : \A i \in 1..Len(parser[p].all_records) :
        \A k \in DOMAIN parser[p].all_records[i].entry : ~IsIgnored(k)

\* A record is handled whose lines held an ignored type, written in
\* another case than configured.
C6_Witness ==
    /\ scenario.ignored_attr_types = {Str("Cn")}
    /\ Len(file[1]) = 3
    /\ file[1][1] = Str("CN: y\r\n")
    /\ file[1][2] = Str("sn:: eA==\n")
    /\ file[1][3] = Str("cn: x\n")
    /\ Len(parser[1].all_records) = 1
    /\ DOMAIN parser[1].all_records[1].entry = {Str("sn")}

\* C7: the values of the lines of one record that share an attribute type
\* are in entry[type] in the order of the lines, repeats kept.
C7_ValuesInLineOrder ==
    \A p \in Parsers :
        WellFormed(scenario.recs) =>
            \A i \in 1..Len(parser[p].all_records) :
                \A k \in DOMAIN parser[p].all_records[i].entry :
                    parser[p].all_records[i].entry[k]
                        = ValuesOf(scenario.recs[i].attrs, k)

\* A record with three lines of one type, one value twice, was handled.
C7_Witness ==
    /\ WellFormed(scenario.recs)
    /\ \E i \in 1..Len(parser[1].all_records) :
          /\ Str("cn") \in DOMAIN parser[1].all_records[i].entry
          /\ parser[1].all_records[i].entry[Str("cn")] = <<Str("x"), Str("y"), Str("x")>>

\* C8 as stated: the dn of every record passed to handle is a string that
\* is a DN or is empty.
C8_DnIsAString ==
    \A p \in Parsers : \A i \in 1..Len(parser[p].all_records) :
        /\ ~parser[p].all_records[i].dn.isNone
        /\ is_dn(parser[p].all_records[i].dn.s)

----------------------------------------------------------------------------
(* Streams of one folded logical line                                      *)

\* The logical lines that are folded, the line separator left out: plain,
\* base64, URL-reference, comment and colon-less lines, and a value with a
\* character outside ASCII (e with acute, two bytes in UTF-8).
Logical ==
    { Str("dn: o=a"), Str("changetype: add"), Str("cn: abc"), Str("cn:"),
      Str("#c d"), Str("sn:: eA=="), Str("cn:< u"), Str("zz"),
      Str("cn: a") \o <<Chr(195), Chr(169)>> }

\* The lines that may follow the folded line.
Followers ==
    { <<>>, <<Str("changetype: add\n"), Str("cn: x\n")>> }

\* How many continuation lines a folded line has at most.
MaxFolds == 2

\* The fragments of l cut after the positions of cuts.
RECURSIVE Fragments(_, _)
Fragments(l, cuts) ==
    IF cuts = {} THEN <<l>>
    ELSE LET c == CHOOSE c \in cuts : \A d \in cuts : d <= c
         IN  Fragments(SubSeq(l, 1, c), cuts \ {c}) \o <<SubSeq(l, c + 1, Len(l))>>

\* The physical lines of the fragments: the first as it is, every other
\* one after one space.
Folded(l, cuts, sep) ==
    [i \in 1..(Cardinality(cuts) + 1) |->
        (IF i = 1 THEN <<>> ELSE <<" ">>) \o Fragments(l, cuts)[i] \o sep]

\* The ways of cutting l into at most MaxFolds + 1 fragments, none empty.
Cuts(l) == {c \in SUBSET (1..(Len(l) - 1)) : Cardinality(c) <= MaxFolds}

InitFold ==
    \E l \in Logical, sep \in {LF, CRLF}, after \in Followers :
        \E cuts \in Cuts(l) :
            One(Folded(l, cuts, sep) \o after, {}, 0,
                [kind |-> "fold", ignored_attr_types |-> {},
                 L |-> l, cuts |-> cuts, sep |-> sep, after |-> after])

SpecFold == InitFold /\ [][Next]_vars

\* The exceptions that leave the tokenizer.
TokenizerErrors == {"UnicodeDecodeError", "UnicodeEncodeError", "binascii.Error"}

\* The first call of the tokenizer by the instance s returned, or raised,
\* what t says.
FirstTokenIs(s, t) ==
    IF t.error # ""
    THEN s.pc = "raised" /\ s.err = t.error
    ELSE /\ s.err \notin TokenizerErrors
         /\ s.attr_type = t.attr_type
         /\ s.attr_value = t.attr_value

\* C5 as stated: the tokenizer returns for a logical line L written as a
\* first physical line and K continuation lines, each after one space,
\* the pair it returns for L written on one physical line.
C5_FoldingRoundTrip ==
    \A p \in Parsers :
        parser[p].tokens = 1 =>
            FirstTokenIs(parser[p],
                _parseAttrTypeandValue(scenario.L \o scenario.sep, scenario.after))

\* C5 holds of the logical lines that are ASCII.
C5_FoldingRoundTripAscii ==
    \A p \in Parsers :
        (parser[p].tokens = 1 /\ \A i \in 1..Len(scenario.L) : IsAscii(scenario.L[i])) =>
            FirstTokenIs(parser[p],
                _parseAttrTypeandValue(scenario.L \o scenario.sep, scenario.after))

----------------------------------------------------------------------------
(* Streams with one line inserted in a record                              *)

\* The lines of the streams a line is inserted in.
BaseVocabulary ==
    { Str("dn: o=a\n"), Str("cn: x\n"), Str("changetype: add\n"), Str("\n") }

\* How many lines the stream has at most before the insertion.
MaxBase == 4

\* The lines that are inserted: a URL reference and a line without colon.
Inserted == { Str("cn:< u\n"), Str("zz\n") }

\* Lines i and i + 1 of base are lines of one record.
InsideRecord(base, i) == base[i] # LF /\ base[i + 1] # LF

\* base with the line l between its lines i and i + 1.
InsertAt(base, i, l) == SubSeq(base, 1, i) \o <<l>> \o SubSeq(base, i + 1, Len(base))

InitInsert ==
    \E base \in SeqsUpTo(BaseVocabulary, MaxBase), l \in Inserted :
        \E i \in 1..(Len(base) - 1) :
            /\ InsideRecord(base, i)
            /\ One(InsertAt(base, i, l), {}, 0,
                   [kind |-> "insert", ignored_attr_types |-> {},
                    base |-> base, at |-> i, inserted |-> l,
                    without |-> parse(LDIFRecordList(base, {}, 0))])

SpecInsert == InitInsert /\ [][Next]_vars

\* The first call of parse() by instance p is over.
FirstCallOver(p) == parser[p].calls = 1 /\ Left(parser[p])

\* The stream without the inserted line is one record, which is handled.
OneRecordHandled ==
    /\ \A i \in 1..Len(scenario.base) : scenario.base[i] # LF
    /\ scenario.without.pc = "returned"
    /\ Len(scenario.without.all_records) = 1

\* C9 as stated: a URL-reference line inside a record that is handled
\* leaves what is handled as it is without the line: the record is handled
\* once, with the same dn and the same entry.
C9_UrlLineDropped ==
    \A p \in Parsers :
        (/\ scenario.inserted = Str("cn:< u\n")
         /\ OneRecordHandled
         /\ FirstCallOver(p)) =>
            /\ parser[p].pc = "returned"
            /\ parser[p].all_records = scenario.without.all_records

\* C10 as stated: a line without colon inserted between two lines of a
\* record of a stream that parses without error leaves a stream that
\* parses without error.
C10_ColonlessLineTolerated ==
    \A p \in Parsers :
        (/\ scenario.inserted = Str("zz\n")
         /\ scenario.without.pc = "returned")
            => parser[p].pc # "raised"

----------------------------------------------------------------------------
(* The changetype line                                                     *)

\* The errors parse() raises at a changetype line.
ChangetypeErrors ==
    { "ValueError: Read changetype: before getting valid dn: line.",
      "ValueError: Two lines starting with changetype: in one record.",
      "ValueError: changetype value is invalid." }

\* The changetype line the instance s is at must be refused.
ChangetypeRefused(s) ==
    \/ s.dn.isNone
    \/ ~s.changetype.isNone
    \/ s.attr_value.s \notin {Str("add"), Str("delete"), Str("modify"), Str("modrdn")}

\* C11: a changetype line makes parse() raise when the record has no dn
\* yet, when it already has a changetype, or when the value is not exactly
\* add, delete, modify or modrdn; in every other case the line is accepted,
\* the entry stays as it is, and the next line is read.
C11_ChangetypeLine ==
    [][\A p \in Parsers :
         (IsChangetypeToken(parser[p]) /\ parser'[p] # parser[p]) =>
            IF ChangetypeRefused(parser[p])
            THEN /\ parser'[p].pc = "raised"
                 /\ parser'[p].err \in ChangetypeErrors
                 /\ parser'[p].all_records = parser[p].all_records
                 /\ parser'[p].records_read = parser[p].records_read
            ELSE /\ parser'[p].err \notin ChangetypeErrors
                 /\ parser'[p].entry = parser[p].entry
                 /\ parser'[p].dn = parser[p].dn
                 /\ parser'[p].changetype = parser[p].attr_value
                 /\ parser'[p].tokens = parser[p].tokens + 1]_vars

\* A record with an accepted changetype line was handled with the
\* attribute that followed the line.
C11_Witness ==
    /\ file[1] = <<Str("dn: o=a\n"), Str("changetype: add\n"), Str("cn: x\n")>>
    /\ parser[1].changetype = Some(Str("add"))
    /\ Len(parser[1].all_records) = 1
    /\ parser[1].all_records[1].entry = (Str("cn") :> <<Str("x")>>)

\* A changetype line in another letter case was refused.
C11_WitnessRefused ==
    /\ file[1] = <<Str("dn: o=a\n"), Str("changetype: Add\n")>>
    /\ parser[1].pc = "raised"
    /\ parser[1].err = "ValueError: changetype value is invalid."

----------------------------------------------------------------------------
(* Streams with one comment inserted in a record                           *)

\* The comments that are inserted, as physical lines: on one line, with a
\* colon, folded, and folded with a character outside ASCII (e with acute)
\* on the continuation line.
Comments ==
    { <<Str("#c\n")>>,
      <<Str("# dn: o=z\r\n")>>,
      <<Str("#c\n"), Str(" d\n")>>,
      <<Str("#c\n"), <<" ", Chr(195), Chr(169), "\n">>>> }

\* The comment c holds ASCII only.
AsciiComment(c) == \A i \in 1..Len(c) : \A k \in 1..Len(c[i]) : IsAscii(c[i][k])

\* A comment after line i of base is inside a record: it follows or
\* precedes a line of a record.
BesideRecordLine(base, i) ==
    \/ i >= 1 /\ base[i] # LF
    \/ i < Len(base) /\ base[i + 1] # LF

\* base with the lines ls after its line i.
InsertLines(base, i, ls) == SubSeq(base, 1, i) \o ls \o SubSeq(base, i + 1, Len(base))

InitComment ==
    \E base \in SeqsUpTo(BaseVocabulary, MaxBase), c \in Comments :
        \E i \in 0..Len(base) :
            /\ BesideRecordLine(base, i)
            /\ One(InsertLines(base, i, c), {}, 0,
                   [kind |-> "comment", ignored_attr_types |-> {},
                    base |-> base, at |-> i, comment |-> c,
                    without |-> parse(LDIFRecordList(base, {}, 0))])

SpecComment == InitComment /\ [][Next]_vars

\* The first call of parse() by instance p ended as the call on the stream
\* without the comment: the same records handled, the same count, and the
\* same error if any.
AsWithout(p) ==
    /\ parser[p].pc = scenario.without.pc
    /\ parser[p].err = scenario.without.err
    /\ parser[p].all_records = scenario.without.all_records
    /\ parser[p].records_read = scenario.without.records_read

\* C12 as stated: a comment, folded or not, inside a record neither ends
\* the record nor changes what is handled, and raises no error.
C12_CommentSkipped ==
    \A p \in Parsers : FirstCallOver(p) => AsWithout(p)

\* C12 holds of the comments that are ASCII.
C12_CommentSkippedAscii ==
    \A p \in Parsers :
        (FirstCallOver(p) /\ AsciiComment(scenario.comment)) => AsWithout(p)

----------------------------------------------------------------------------
(* parse() called again                                                    *)

\* parse() has returned and the stream of the instance s has no line left.
Exhausted(s) == s.pc = "returned" /\ s.input_file = <<>>

\* The step from s to t handles nothing and keeps the count.
NothingHandled(s, t) ==
    /\ t.all_records = s.all_records
    /\ t.records_read = s.records_read
    /\ t.err = ""

\* C13: parse() called again on an instance whose stream is exhausted
\* handles nothing, raises nothing and keeps records_read: the call reads
\* the end of the stream and returns.
C13_ParseAgainIsNoOp ==
    /\ [](\A p \in Parsers :
            Exhausted(parser[p]) =>
                /\ parse(parser[p]).pc = "returned"
                /\ NothingHandled(parser[p], parse(parser[p])))
    /\ [][\A p \in Parsers :
            /\ (Exhausted(parser[p]) /\ parser'[p] # parser[p]) =>
                  /\ parser'[p].pc = "outer"
                  /\ parser'[p].line = <<>>
                  /\ parser'[p].calls = parser[p].calls + 1
                  /\ NothingHandled(parser[p], parser'[p])
            /\ (/\ parser[p].pc = "outer"
                /\ parser[p].calls >= 2
                /\ parser[p].line = <<>>
                /\ parser'[p] # parser[p]) =>
                  /\ parser'[p].pc = "returned"
                  /\ NothingHandled(parser[p], parser'[p])]_vars

\* The second call on an exhausted stream returned, the record the first
\* call handled still counted.
C13_Witness ==
    /\ parser[1].calls = 2
    /\ parser[1].pc = "returned"
    /\ parser[1].max_entries = 0
    /\ parser[1].records_read = 1
    /\ Len(parser[1].all_records) = 1
    /\ Len(file[1]) = 3

----------------------------------------------------------------------------
(* Streams of one record with a chosen dn                                  *)

\* The characters the chosen dn values are made of.
DnAlphabet == {"o", "=", ",", " ", "\"", "\\"}

\* How long a dn value made of DnAlphabet is at most.
MaxDnLen == 4

\* dn values written out.
DnExamples ==
    { Str("cn=Bob,dc=example,dc=com"), Str("cn=Bob,,dc=com"), Str("cn=Bob,dc"),
      Str("cn=Bob,"), Str("cn=Bob,dc=com x,"), Str("cn = Bob , dc = com ") }

\* The dn values of SpecDn; none begins with a space, which the tokenizer
\* would strip.
DnValues ==
    DnExamples \cup {d \in SeqsUpTo(DnAlphabet, MaxDnLen) : d = <<>> \/ d[1] # " "}

InitDn ==
    \E d \in DnValues :
        One(<<Str("dn: ") \o d \o LF, Str("changetype: add\n"), Str("cn: x\n")>>, {}, 0,
            [kind |-> "dn", ignored_attr_types |-> {}, d |-> d])

SpecDn == InitDn /\ [][Next]_vars

\* v without the spaces around it.
RECURSIVE Trim(_)
Trim(v) ==
    IF v = <<>> THEN v
    ELSE IF v[1] = " " THEN Trim(Tail(v))
    ELSE IF v[Len(v)] = " " THEN Trim(SubSeq(v, 1, Len(v) - 1))
    ELSE v

\* v is the value of a component: not empty, and a comma in it is escaped
\* or v is quoted.
IsValue(v) ==
    /\ v # <<>>
    /\ \/ Len(Trim(v)) >= 2 /\ Trim(v)[1] = "\"" /\ Trim(v)[Len(Trim(v))] = "\""
       \/ \A i \in 1..Len(v) : v[i] = "," => (i > 1 /\ v[i - 1] = "\\")

\* c is a component type=value: a type that is not empty, the first '=',
\* and a value.
IsComponent(c) ==
    \E e \in 2..Len(c) :
        /\ c[e] = "="
        /\ \A i \in 1..(e - 1) : c[i] \notin {"=", ","}
        /\ IsValue(SubSeq(c, e + 1, Len(c)))

\* s is a comma-separated sequence of one or more components.
RECURSIVE IsComponents(_)
IsComponents(s) ==
    \/ IsComponent(s)
    \/ \E i \in 1..Len(s) :
          /\ s[i] = ","
          /\ IsComponent(SubSeq(s, 1, i - 1))
          /\ IsComponents(SubSeq(s, i + 1, Len(s)))

\* The dn line of the stream was read and tested.
DnTested(p) == parser[p].tokens >= 2 \/ (parser[p].tokens = 1 /\ parser[p].pc = "raised")

\* is_dn accepted the dn of the stream.
DnAccepted(p) == parser[p].tokens >= 2 /\ parser[p].dn = Some(scenario.d)

\* is_dn rejected the dn of the stream.
DnRejected(p) ==
    /\ parser[p].tokens = 1
    /\ parser[p].pc = "raised"
    /\ parser[p].err = "ValueError: No valid string-representation of distinguished name"

\* C14: is_dn accepts a string only when it is empty or the whole of it is
\* a comma-separated sequence of one or more type=value components:
\* "cn=Bob,dc=example,dc=com" and "" are accepted, "cn=Bob,,dc=com" and
\* strings of which only a prefix is such a sequence are rejected.
C14_IsDn ==
    \A p \in Parsers :
        DnTested(p) =>
            /\ DnAccepted(p) \/ DnRejected(p)
            /\ DnAccepted(p) => (scenario.d = <<>> \/ IsComponents(scenario.d))
            /\ scenario.d \in {<<>>, Str("cn=Bob,dc=example,dc=com")} => DnAccepted(p)
            /\ scenario.d \in {Str("cn=Bob,,dc=com"), Str("cn=Bob,dc"), Str("cn=Bob,"),
                               Str("cn=Bob,dc=com x,"), Str("o=o,"), Str("o=o,o")}
                  => DnRejected(p)

\* The record with the dn cn=Bob,dc=example,dc=com was handled.
C14_Witness ==
    /\ scenario.d = Str("cn=Bob,dc=example,dc=com")
    /\ Len(parser[1].all_records) = 1
    /\ parser[1].all_records[1].dn = Some(scenario.d)

\* The dn cn=Bob,,dc=com was rejected.
C14_WitnessRejected == scenario.d = Str("cn=Bob,,dc=com") /\ DnRejected(1)

----------------------------------------------------------------------------
(* Streams that begin with one plain-value line                            *)

\* The attribute types of the line.
PlainTypes == {Str("cn"), Str("dn"), Str("x-y;z")}

\* The characters of what follows the colon.
PlainAlphabet == {"o", "=", " ", "\t"}

\* How long the text after the colon is at most.
MaxValueLen == 3

\* What follows the colon: it begins with none of ':' and '<'.
PlainRests == SeqsUpTo(PlainAlphabet, MaxValueLen)

InitPlain ==
    \E T \in PlainTypes, R \in PlainRests, sep \in {LF, CRLF}, after \in Followers :
        One(<<T \o <<":">> \o R \o sep>> \o after, {}, 0,
            [kind |-> "plain", ignored_attr_types |-> {},
             T |-> T, R |-> R, sep |-> sep, after |-> after])

SpecPlain == InitPlain /\ [][Next]_vars

\* C15 as stated: for the line T:R the tokenizer returns the type T and R
\* without its leading whitespace, whether or not a space follows the
\* colon.
C15_PlainValue ==
    \A p \in Parsers :
        parser[p].tokens = 1 =>
            FirstTokenIs(parser[p],
                [error |-> "", attr_type |-> Some(scenario.T),
                 attr_value |-> Some(LStrip(scenario.R))])

\* C15 holds of the lines where the colon is followed by whitespace or by
\* the line end.
C15_PlainValueAfterSpace ==
    \A p \in Parsers :
        (/\ parser[p].tokens = 1
         /\ scenario.R = <<>> \/ scenario.R[1] \in Whitespace) =>
            FirstTokenIs(parser[p],
                [error |-> "", attr_type |-> Some(scenario.T),
                 attr_value |-> Some(LStrip(scenario.R))])

----------------------------------------------------------------------------
(* Streams of a record with one line of empty value                        *)

\* What the record holds before the line: its lines, the dn they give and
\* the attributes they give.
Befores ==
    { [lines |-> <<>>, dn |-> None, attrs |-> <<>>],
      [lines |-> <<Str("dn: o=a\n")>>, dn |-> Some(Str("o=a")), attrs |-> <<>>],
      [lines |-> <<Str("dn: o=a\n"), Str("changetype: add\n")>>,
       dn |-> Some(Str("o=a")), attrs |-> <<>>],
      [lines |-> <<Str("cn: x\n")>>, dn |-> None, attrs |-> <<Attr("cn", "x")>>] }

\* What follows the line: the lines, the attributes they give to the same
\* record, and whether they hold a further record.
Afters ==
    { [lines |-> <<>>, attrs |-> <<>>, more |-> FALSE],
      [lines |-> <<Str("cn: y\n")>>, attrs |-> <<Attr("cn", "y")>>, more |-> FALSE],
      [lines |-> <<Str("sn: z\n"), Str("\n"), Str("cn: y\n")>>,
       attrs |-> <<Attr("sn", "z")>>, more |-> TRUE] }

InitEmpty ==
    \E b \in Befores, a \in Afters, T \in {Str("cn"), Str("sn")}, sep \in {LF, CRLF} :
        One(b.lines \o <<T \o <<":">> \o sep>> \o a.lines, {}, 0,
            [kind |-> "empty", ignored_attr_types |-> {},
             before |-> b, after |-> a, T |-> T,
             attrs |-> b.attrs \o <<[type |-> T, value |-> <<>>]>> \o a.attrs])

SpecEmpty == InitEmpty /\ [][Next]_vars

\* C16: a line of a type and a colon followed by the line end gives the
\* empty string as value, not None: the empty string is appended to
\* entry[type], the record goes on, and the attributes after the line are
\* in the same record.
C16_EmptyValue ==
    \A p \in Parsers :
        /\ parser[p].pc # "raised"
        /\ (parser[p].tokens = Len(scenario.before.lines) + 1) =>
              /\ parser[p].attr_type = Some(scenario.T)
              /\ parser[p].attr_value = Some(<<>>)
        /\ FirstCallOver(p) =>
              /\ Len(parser[p].all_records) = (IF scenario.after.more THEN 2 ELSE 1)
              /\ parser[p].all_records[1].dn = scenario.before.dn
              /\ DOMAIN parser[p].all_records[1].entry
                    = {scenario.attrs[i].type : i \in 1..Len(scenario.attrs)}
              /\ \A k \in DOMAIN parser[p].all_records[1].entry :
                    parser[p].all_records[1].entry[k] = ValuesOf(scenario.attrs, k)

\* The record was handled with the empty string between two other values
\* of its type.
C16_Witness ==
    /\ FirstCallOver(1)
    /\ Len(parser[1].all_records) = 1
    /\ Str("cn") \in DOMAIN parser[1].all_records[1].entry
    /\ parser[1].all_records[1].entry[Str("cn")] = <<Str("x"), <<>>, Str("y")>>

----------------------------------------------------------------------------
(* Two instances, each over a stream of its own                            *)

\* The streams of the two instances.
Streams ==
    { <<Str("dn: o=a\n"), Str("changetype: add\n"), Str("cn: x\n")>>,
      <<Str("cn: x\n"), Str("\n"), Str("sn:: eA==\n")>>,
      <<Str("CN: y\r\n"), Str("sn: z\n"), Str("\n"), Str("cn: x\n")>>,
      <<Str("dn: o=a\n"), Str("cn: x\n"), Str("dn: o=b\n")>>,
      <<Str("dn: o=a,,\n")>>,
      <<Str("zz\n"), Str("cn: x\n")>> }

\* The instance s after each of the calls of parse() that MaxCalls allows,
\* k of them made, when it runs alone.
RECURSIVE Alone(_, _)
Alone(s, k) ==
    IF k >= MaxCalls \/ s.pc = "raised" THEN <<>>
    ELSE <<parse(s)>> \o Alone(parse(s), k + 1)

InitTwo ==
    \E f \in Streams, g \in Streams :
        /\ parser = <<LDIFRecordList(f, {}, 0), LDIFRecordList(g, {Str("cn")}, 1)>>
        /\ file = <<f, g>>
        /\ scenario = [kind |-> "two", ignored_attr_types |-> {Str("cn")},
                       alone |-> <<Alone(LDIFRecordList(f, {}, 0), 0),
                                   Alone(LDIFRecordList(g, {Str("cn")}, 1), 0)>>]

SpecTwo == InitTwo /\ [][Next]_vars

\* C17: under every interleaving of the steps of two instances over
\* streams of their own, each instance handles the records it handles
\* alone, in the same order, and ends every call of parse() in the state
\* it ends it in alone; a step of one instance is the step its own state
\* gives and leaves the other instance as it is.
C17_Independent ==
    /\ [](\A p \in Parsers :
            /\ parser[p].calls >= 1 =>
                  IsPrefix(parser[p].all_records,
                           scenario.alone[p][Len(scenario.alone[p])].all_records)
            /\ (parser[p].calls >= 1 /\ Left(parser[p])) =>
                  parser[p] = scenario.alone[p][parser[p].calls])
    /\ [][\A p \in Parsers :
            parser'[p] # parser[p] =>
                /\ \A q \in Parsers \ {p} : parser'[q] = parser[q]
                /\ parser'[p] = (IF Left(parser[p]) \/ parser[p].pc = "ready"
                                 THEN Begin(parser[p]) ELSE Step(parser[p]))]_vars

\* Both instances have handled a record of their own, the second has
\* returned while the first is still inside a record.
C17_Witness ==
    /\ parser[1].pc = "inner"
    /\ Len(parser[1].all_records) = 1
    /\ parser[2].pc = "returned"
    /\ parser[2].calls = 1
    /\ Len(parser[2].all_records) = 1
    /\ parser[2].all_records[1].entry # parser[1].all_records[1].entry

----------------------------------------------------------------------------
(* Termination                                                             *)

\* A step of parse() between its call and its end.
InCall(p) ==
    \/ RecordBegin(p)
    \/ ParseReturn(p)
    \/ DnLine(p)
    \/ ChangetypeLine(p)
    \/ AttrLine(p)
    \/ RecordEnd(p)

\* Some instance is inside parse().
Running == \E p \in Parsers : parser[p].pc \in {"outer", "inner"}

\* No instance is inside parse().
Stopped == \A p \in Parsers : parser[p].pc \in {"ready", "returned", "raised"}

\* A call of parse() that was made is run on: the interpreter does not
\* stop inside a call.  This is weak fairness of the steps of a call,
\* WF_vars(\E p \in Parsers : InCall(p)), with its ENABLED written as the
\* state predicate it is, Running (C18 checks that a step of the call is
\* possible in every state inside parse()).
RunsOn == []<>Stopped \/ []<><<\E p \in Parsers : InCall(p)>>_vars

\* Spec with every call of parse() run on.
SpecLive == Init /\ [][Next]_vars /\ RunsOn

\* What bounds the steps the call of the instance s has left: the lines
\* not consumed, then the place in the loops.
Variant(s) ==
    IF s.pc \notin {"outer", "inner"} THEN 0
    ELSE 3 * LinesLeft(s)
            + (IF s.pc = "outer" THEN 1 ELSE IF InRecord(s) THEN 3 ELSE 2)

\* C18: parse() terminates on every finite stream, by returning or by
\* raising.  In every state inside parse() a step is possible and brings
\* the call nearer its end; a tokenizer call that returns has consumed at
\* least one physical line unless the stream was at its end, and the call
\* that starts a pass of the record loop always has; when parse() has
\* returned, the stream is exhausted or max_entries > 0 and records_read >=
\* max_entries.
C18_Terminates ==
    /\ [](\A p \in Parsers :
            /\ parser[p].pc = "returned" =>
                  \/ LinesLeft(parser[p]) = 0
                  \/ parser[p].max_entries > 0
                     /\ parser[p].records_read >= parser[p].max_entries
            /\ parser[p].pc \in {"outer", "inner"} =>
                  /\ Step(parser[p]) # parser[p]
                  /\ Variant(Step(parser[p])) < Variant(parser[p]))
    /\ [][\A p \in Parsers :
            /\ (parser[p].pc \in {"outer", "inner"} /\ parser'[p] # parser[p]) =>
                  parser'[p] = Step(parser[p])
            /\ (parser'[p].tokens = parser[p].tokens + 1 /\ parser'[p].pc # "raised") =>
                  \/ LinesLeft(parser'[p]) < LinesLeft(parser[p])
                  \/ LinesLeft(parser[p]) = 0 /\ ~InRecord(parser'[p])
            /\ (parser[p].pc = "outer" /\ parser'[p].pc = "inner") =>
                  LinesLeft(parser'[p]) < LinesLeft(parser[p])]_vars
    /\ (Running ~> Stopped)

\* parse() has returned at the cap with lines of the stream left.
C18_Witness ==
    /\ parser[1].pc = "returned"
    /\ parser[1].max_entries = 1
    /\ parser[1].records_read = 1
    /\ LinesLeft(parser[1]) > 0
    /\ parser[1].tokens >= 2

\* parse() has returned at the end of a stream of three lines.
C18_WitnessExhausted ==
    /\ parser[1].pc = "returned"
    /\ parser[1].max_entries = 0
    /\ Len(file[1]) = 3
    /\ LinesLeft(parser[1]) = 0
    /\ parser[1].tokens >= 3

----------------------------------------------------------------------------
(* The entries that are handled                                            *)

\* C19: no entry passed to handle has the key dn or the key changetype,
\* every key of such an entry has a list of values that is not empty, and
\* no value is None: the entry changes only by a token whose value is not
\* None, which is appended to the list of its type.
C19_EntryShape ==
    /\ [](\A p \in Parsers : \A i \in 1..Len(parser[p].all_records) :
            /\ Str("dn") \notin DOMAIN parser[p].all_records[i].entry
            /\ Str("changetype") \notin DOMAIN parser[p].all_records[i].entry
            /\ \A k \in DOMAIN parser[p].all_records[i].entry :
                  parser[p].all_records[i].entry[k] # <<>>)
    /\ [][\A p \in Parsers :
            (parser'[p].entry # parser[p].entry /\ parser'[p].entry # <<>>) =>
                /\ ~parser[p].attr_type.isNone
                /\ ~parser[p].attr_value.isNone
                /\ parser[p].attr_type.s \notin {Str("dn"), Str("changetype")}
                /\ parser'[p].entry =
                      AddValue(parser[p].entry, parser[p].attr_type.s,
                               parser[p].attr_value.s)]_vars

\* A record with a dn line, a changetype line and a base64 line was
\* handled with the one key sn.
C19_Witness ==
    /\ file[1] = <<Str("dn: o=a\n"), Str("changetype: add\n"), Str("sn:: eA==\n")>>
    /\ Len(parser[1].all_records) = 1
    /\ parser[1].all_records[1].entry = (Str("sn") :> <<Str("x")>>)

=============================================================================
